---- MODULE Spec2Model ----
(***************************************************************************)
(* LoadingDialog (src/widgets/loading_dialog.py): a modal Qt dialog that   *)
(* runs a caller-supplied function on a background thread.  The worker     *)
(* talks to the UI thread through three queued signals (start, progress,   *)
(* stop); the UI thread applies progress payloads to the widgets, a 500 ms *)
(* ticker refreshes the elapsed time, and on_finish schedules accept().    *)
(*                                                                         *)
(* Python values: None is the empty tuple and a present value x is <<x>>;  *)
(* a str is the tuple of its characters; "exception" is the Exception      *)
(* class that LoadingDialogThread.run catches.                             *)
(***************************************************************************)
EXTENDS Integers, Sequences, FiniteSets, TLC

\* ------------------------------------------------------------------ bounds
\* updateProgress calls the caller-supplied function makes in one run
MaxPosts == 3
\* timeouts of the 500 ms ticker in one run
MaxTicks == 1

\* ------------------------------------------------------- program constants
\* deque(maxlen=5)
MaxLen == 5
\* len(text) > 5
MinTextLen == 5
\* QProgressBar.setRange(0, 100)
BarMin == 0
BarMax == 100

\* ----------------------------------------------------------- Python values
None == <<>>
Some(x) == <<x>>
Val(o) == o[1]

Min(a, b) == IF a <= b THEN a ELSE b

\* The({F(x) : x \in {v}}) is F(v) with v evaluated once: inside ENABLED, TLC
\* evaluates a LET definition or an operator argument again at each use.
The(S) == CHOOSE r \in S : TRUE

Digits == {"0", "1", "2", "3", "4", "5", "6", "7", "8", "9"}

DigitVal(c) ==
    CASE c = "0" -> 0 [] c = "1" -> 1 [] c = "2" -> 2 [] c = "3" -> 3
      [] c = "4" -> 4 [] c = "5" -> 5 [] c = "6" -> 6 [] c = "7" -> 7
      [] c = "8" -> 8 [] c = "9" -> 9

DigitChar(d) ==
    CASE d = 0 -> "0" [] d = 1 -> "1" [] d = 2 -> "2" [] d = 3 -> "3"
      [] d = 4 -> "4" [] d = 5 -> "5" [] d = 6 -> "6" [] d = 7 -> "7"
      [] d = 8 -> "8" [] d = 9 -> "9"

\* str(n) for a natural number n
RECURSIVE NatToStr(_)
NatToStr(n) ==
    IF n < 10 THEN <<DigitChar(n)>>
    ELSE NatToStr(n \div 10) \o <<DigitChar(n % 10)>>

\* f"{n}" for an int n
IntToStr(n) == IF n < 0 THEN <<"-">> \o NatToStr(0 - n) ELSE NatToStr(n)

\* sub in s: smallest index where sub starts in s, 0 when it does not occur
Find(s, sub) ==
    LET hits == {i \in 1..(Len(s) - Len(sub) + 1) :
                    SubSeq(s, i, i + Len(sub) - 1) = sub}
    IN IF hits = {} THEN 0 ELSE CHOOSE i \in hits : \A j \in hits : i <= j

Contains(s, sub) == Find(s, sub) # 0

\* s.split(sep): the parts between the non-overlapping occurrences of sep
RECURSIVE Split(_, _)
Split(s, sep) ==
    The({ IF i = 0 THEN <<s>>
          ELSE <<SubSeq(s, 1, i - 1)>>
                   \o Split(SubSeq(s, i + Len(sep), Len(s)), sep)
          : i \in {Find(s, sep)} })

\* s.strip() over the whitespace of the modelled alphabet
RECURSIVE LStrip(_)
LStrip(s) == IF s # <<>> /\ Head(s) = " " THEN LStrip(Tail(s)) ELSE s

RECURSIVE RStrip(_)
RStrip(s) ==
    IF s # <<>> /\ s[Len(s)] = " " THEN RStrip(SubSeq(s, 1, Len(s) - 1)) ELSE s

Strip(s) == RStrip(LStrip(s))

RECURSIVE DecVal(_)
DecVal(ds) ==
    IF ds = <<>> THEN 0
    ELSE IF ds[Len(ds)] = "_" THEN DecVal(SubSeq(ds, 1, Len(ds) - 1))
    ELSE 10 * DecVal(SubSeq(ds, 1, Len(ds) - 1)) + DigitVal(ds[Len(ds)])

\* int(s): None stands for ValueError.  Surrounding whitespace, one sign and
\* single underscores between digits are accepted, as by Python.
ParseInt(s) ==
    The({
        LET signed == t # <<>> /\ t[1] \in {"+", "-"}
        IN The({
               LET ok == /\ body # <<>>
                         /\ \A i \in 1..Len(body) : body[i] \in Digits \cup {"_"}
                         /\ body[1] \in Digits
                         /\ body[Len(body)] \in Digits
                         /\ \A i \in 1..(Len(body) - 1) :
                                ~(body[i] = "_" /\ body[i + 1] = "_")
               IN IF ~ok THEN None
                  ELSE IF signed /\ t[1] = "-" THEN Some(0 - DecVal(body))
                  ELSE Some(DecVal(body))
               : body \in {IF signed THEN Tail(t) ELSE t} })
        : t \in {Strip(s)} })

\* ------------------------------------------------------------------- texts
TxtFoo310 == <<"f", "o", "o", " ", "(", "3", "/", "1", "0", ")">>
TxtBar79 == <<"b", "a", "r", " ", "(", "7", "/", "9", ")">>
TxtPad == <<"p", "a", "d", " ", "(", " ", "4", " ", "/", "+", "5", ")">>
TxtBadTotal == <<"f", "o", "o", " ", "(", "3", "/", "x", ")">>
TxtThree == <<"f", " ", "(", "1", "/", "2", "/", "3", ")">>
TxtNested == <<"a", " ", "(", "b", ")", " ", "(", "1", "/", "2", ")">>
TxtNoCount == <<"d", "o", "n", "e", " ", "(", "o", "k", ")">>
TxtPlain == <<"a", "b", "c">>
TxtOpA == <<"c", "o", "p", "y", " ", "a">>
TxtOpB == <<"c", "o", "p", "y", " ", "b">>
TxtOpC == <<"c", "o", "p", "y", " ", "c">>
TxtOpD == <<"l", "i", "n", "k", " ", "d">>
TxtOpE == <<"l", "i", "n", "k", " ", "e">>
TxtOpF == <<"l", "i", "n", "k", " ", "f">>
TxtShort == <<"s", "h", "o", "r", "t">>
TxtCopying == <<"C", "o", "p", "y", "i", "n", "g">>

\* ---------------------------------------------------------------- payloads
\* The dict updateProgress builds (the keys setProgress reads), and the
\* legacy keys text/value/max a dict emitted on progress_signal may carry.
Payload(t1, v1, m1, t2, t3) ==
    [text1 |-> t1, value1 |-> v1, max1 |-> m1, text2 |-> t2, text3 |-> t3,
     text |-> None, value |-> None, max |-> None]

LegacyPayload(v1, m1, t, v, m) ==
    [text1 |-> None, value1 |-> v1, max1 |-> m1, text2 |-> None, text3 |-> None,
     text |-> t, value |-> v, max |-> m]

\* value1=50, max1=200 with text1="Copying" next to pairs that truncate
\* (2/3), fall short in floating point (29/100), exceed the maximum (300/200)
\* or are negative
BarPayloads ==
    { Payload(Some(TxtCopying), Some(50), Some(200), None, None),
      Payload(None, Some(2), Some(3), None, None),
      Payload(None, Some(29), Some(100), None, None),
      Payload(None, Some(300), Some(200), None, None),
      Payload(None, Some(0 - 1), Some(4), None, None) }

\* primary triples with max 0, max absent, value absent, everything absent
\* (each with its own text1), next to a valid one and one given by the
\* legacy keys
GuardPayloads ==
    { Payload(Some(TxtCopying), Some(5), Some(0), None, None),
      Payload(Some(TxtPlain), None, Some(4), None, None),
      Payload(Some(TxtShort), Some(7), None, None, None),
      Payload(None, None, None, None, None),
      Payload(None, Some(1), Some(4), None, None),
      LegacyPayload(None, None, Some(TxtOpA), Some(3), Some(4)) }

\* secondary texts of the form "name (X/Y)", one without a count, and two
\* primary triples
CountPayloads ==
    { Payload(None, None, None, Some(TxtFoo310), None),
      Payload(None, None, None, Some(TxtPad), None),
      Payload(None, None, None, Some(TxtNested), None),
      Payload(None, None, None, Some(TxtPlain), None),
      Payload(None, Some(3), Some(4), None, None),
      Payload(None, Some(1), Some(4), Some(TxtBar79), None) }

\* secondary texts whose parenthesised part is no count
MalformedPayloads ==
    { Payload(None, None, None, Some(TxtBadTotal), None),
      Payload(None, None, None, Some(TxtThree), None),
      Payload(None, None, None, Some(TxtNoCount), None),
      Payload(None, None, None, Some(TxtPlain), None),
      Payload(None, None, None, Some(TxtFoo310), None) }

\* secondary and tertiary texts for the recent-operations log
LogPayloads ==
    { Payload(None, None, None, Some(TxtOpA), Some(TxtOpD)),
      Payload(None, None, None, Some(TxtOpB), Some(TxtOpE)),
      Payload(None, None, None, Some(TxtOpC), Some(TxtOpF)),
      Payload(None, None, None, Some(TxtOpB), Some(TxtOpB)),
      Payload(None, None, None, Some(TxtShort), Some(TxtShort)),
      Payload(None, None, None, None, Some(TxtOpA)) }

\* one payload of each kind
LifePayloads ==
    { Payload(Some(TxtCopying), Some(50), Some(200), None, None),
      Payload(None, None, None, Some(TxtFoo310), Some(TxtOpA)) }

\* payloads that carry one part only, and one that carries nothing
FramePayloads ==
    { Payload(None, None, None, None, None),
      Payload(Some(TxtCopying), Some(3), Some(4), None, None),
      Payload(None, Some(1), Some(4), None, None),
      Payload(None, None, None, Some(TxtFoo310), None),
      Payload(None, None, None, Some(TxtOpA), None),
      Payload(None, None, None, None, Some(TxtOpD)) }

\* The exceptions func(self) may raise.
Exceptions == {"OSError", "ValueError"}

\* The caller-supplied function, by the payloads it may post.
Funcs == {"bar", "guard", "count", "malformed", "log", "life", "frame"}

PayloadsOf(f) ==
    CASE f = "bar" -> BarPayloads
      [] f = "guard" -> GuardPayloads
      [] f = "count" -> CountPayloads
      [] f = "malformed" -> MalformedPayloads
      [] f = "log" -> LogPayloads
      [] f = "life" -> LifePayloads
      [] f = "frame" -> FramePayloads

\* ------------------------------------------------------------- setProgress
\* lines 283-299: the primary triple, with the legacy keys as fallback
EffText1(p) == IF p.text1 = None THEN p.text ELSE p.text1
EffValue1(p) == IF p.value1 = None THEN p.value ELSE p.value1
EffMax1(p) == IF p.max1 = None THEN p.max ELSE p.max1

\* line 302
HasPrimary(p) == EffMax1(p) # None /\ EffValue1(p) # None

\* line 306: the branch that updates the bar and the processed size
UpdatesBar(p) == HasPrimary(p) /\ Val(EffMax1(p)) > 0

\* The pairs (value, max), max <= 200 and value <= 2*max, for which the IEEE
\* double (value / max) * 100 lies just below the integer 100*value/max, so
\* that int() yields one less than the exact quotient.
FloatShort ==
    { <<23, 20>>, <<29, 25>>, <<46, 40>>, <<29, 50>>, <<57, 50>>, <<58, 50>>,
      <<69, 60>>, <<87, 75>>, <<92, 80>>, <<29, 100>>, <<57, 100>>,
      <<58, 100>>, <<113, 100>>, <<114, 100>>, <<115, 100>>, <<116, 100>>,
      <<138, 120>>, <<145, 125>>, <<161, 140>>, <<87, 150>>, <<171, 150>>,
      <<174, 150>>, <<184, 160>>, <<203, 175>>, <<207, 180>>, <<58, 200>>,
      <<114, 200>>, <<116, 200>>, <<226, 200>>, <<228, 200>>, <<230, 200>>,
      <<232, 200>> }

\* int((value / max) * 100) for max > 0: int() truncates toward zero
IntPercent(value, max) ==
    LET exact == IF value >= 0 THEN (100 * value) \div max
                 ELSE 0 - ((100 * (0 - value)) \div max)
    IN IF <<value, max>> \in FloatShort THEN exact - 1 ELSE exact

\* the percentage rounded to the nearest integer
PercentRounded(value, max) == Min((200 * value + max) \div (2 * max), BarMax)

\* line 308: percent = min(int((value1 / max1) * 100), 100)
Percent(value, max) == Min(IntPercent(value, max), BarMax)

\* the processed size taken from a payload whose max is not positive
SizeAfterUnguarded(cur, p) == IF HasPrimary(p) THEN Val(EffValue1(p)) ELSE cur

\* lines 306 and 312: self.current_size_processed = value1
SizeAfter(cur, p) == IF UpdatesBar(p) THEN Val(EffValue1(p)) ELSE cur

\* QProgressBar.setValue: a value outside the range is ignored
SetValue(cur, x) == IF x < BarMin \/ x > BarMax THEN cur ELSE x

\* utils.scale_value (not part of this file): the value with its unit
ScaleValue(n) == IntToStr(n) \o <<" B">>

\* line 313
SizeText(value, max) ==
    <<"Size: ">> \o ScaleValue(value) \o <<" / ">> \o ScaleValue(max)

NoCount == [completed |-> None, total |-> None, label |-> None]

\* lines 328-331, for the two parts of count_part.split("/"): int(current)
\* is assigned before int(total) is evaluated
AssignCount(current, total) ==
    The({ IF n[1] = None THEN NoCount
          ELSE IF n[2] = None
               THEN [completed |-> n[1], total |-> None, label |-> None]
          ELSE [completed |-> n[1], total |-> n[2],
                label |-> Some(<<"Files: ">> \o current \o <<"/">> \o total)]
          : n \in {<<ParseInt(current), ParseInt(total)>>} })

\* lines 322-334: what the try block has assigned when it ends, normally or
\* in the bare except: completed_operations, total_operations, files_label
ParseFileCount(text2) ==
    IF ~(Contains(text2, <<" ", "(">>) /\ Contains(text2, <<")">>)) THEN NoCount
    ELSE The({ The({ IF ~Contains(count_part, <<"/">>) THEN NoCount
                     ELSE The({ IF Len(ct) # 2 THEN NoCount
                                ELSE AssignCount(ct[1], ct[2])
                                : ct \in {Split(count_part, <<"/">>)} })
                     : count_part \in {Split(parts[2], <<")">>)[1]} })
               : parts \in {Split(text2, <<" ", "(">>)} })

InLog(text, log) == \E i \in 1..Len(log) : log[i] = text

\* a full deque that drops its newest entry
DequeAppendDropsNewest(log, x) ==
    IF Len(log) >= MaxLen THEN SubSeq(log, 1, MaxLen - 1) \o <<x>>
    ELSE Append(log, x)

\* deque(maxlen=5).append, lines 51 and 214
DequeAppend(log, x) ==
    IF Len(log) >= MaxLen THEN Tail(log) \o <<x>> ELSE Append(log, x)

\* lines 340-341
LogAfterText2(log, t2) ==
    IF t2 # None /\ Len(Val(t2)) > MinTextLen /\ ~InLog(Val(t2), log)
    THEN DequeAppend(log, Val(t2)) ELSE log

\* lines 344-347
LogAfterText3(log, t3) ==
    IF t3 # None /\ Len(Val(t3)) > MinTextLen /\ ~InLog(Val(t3), log)
    THEN DequeAppend(log, Val(t3)) ELSE log

\* ------------------------------------------------------------------- state
VARIABLES
    func,                 \* the caller-supplied function
    wpc,                  \* position of the worker thread in run()
    nposted,              \* updateProgress calls made so far
    func_outcome,         \* how func(self) ended: "return" or the exception raised
    exception,            \* LoadingDialogThread.exception
    events,               \* signals queued for the UI thread, oldest first
    stop_emits,           \* number of stop_signal.emit() calls
    epc,                  \* position of the caller in exec()
    timer_active,         \* the 500 ms QTimer is running
    accept_scheduled,     \* QTimer.singleShot(500, self.accept) is pending
    starttime,            \* self.starttime
    start_time,           \* self.start_time
    success,              \* self.success
    exec_raised,          \* the exception exec() raised to its caller
    ticks,                \* ticker timeouts handled so far
    finished,             \* on_finish has run
    bar,                  \* main_progress_bar.value()
    current_size_processed,
    total_size,
    completed_operations,
    total_operations,
    files_label,
    size_label,
    time_label,
    speed_label,
    main_progress_label,
    current_op_label,
    window_title,
    last_operations,      \* the deque
    recent_ops_list       \* items of the QListWidget

worker == <<func, wpc, nposted, func_outcome, exception, stop_emits>>
lifecycle == <<epc, timer_active, accept_scheduled, starttime, start_time,
               success, exec_raised, finished>>
tickerView == <<ticks, time_label, speed_label, window_title>>
progressView == <<bar, current_size_processed, total_size,
                  completed_operations, total_operations, files_label,
                  size_label, main_progress_label, current_op_label,
                  last_operations, recent_ops_list>>
vars == <<worker, events, lifecycle, tickerView, progressView>>

\* LoadingDialog.__init__ and LoadingDialogThread.__init__
Init ==
    /\ func \in Funcs
    /\ wpc = "unstarted"
    /\ nposted = 0
    /\ func_outcome = None
    /\ exception = None
    /\ events = <<>>
    /\ stop_emits = 0
    /\ epc = "constructed"
    /\ timer_active = TRUE
    /\ accept_scheduled = FALSE
    /\ starttime = None
    /\ start_time = None
    /\ success = TRUE
    /\ exec_raised = None
    /\ ticks = 0
    /\ finished = FALSE
    /\ bar = 0
    /\ current_size_processed = 0
    /\ total_size = 0
    /\ completed_operations = 0
    /\ total_operations = 0
    /\ files_label = <<"Files: 0 / 0">>
    /\ size_label = <<"Size: 0 B / 0 B">>
    /\ time_label = <<"Time: 00:00">>
    /\ speed_label = <<"Speed: -- MB/s">>
    /\ main_progress_label = <<"Preparing operation...">>
    /\ current_op_label = <<"Waiting to start...">>
    /\ window_title = <<"Operation in Progress">>
    /\ last_operations = <<>>
    /\ recent_ops_list = <<>>

\* ----------------------------------------------------------- caller thread
\* exec(), lines 358-364: start the thread, set starttime, enter the modal
\* event loop
Exec ==
    /\ epc = "constructed"
    /\ epc' = "loop"
    /\ wpc' = "emit_start"
    /\ starttime' = Some(ticks)
    /\ UNCHANGED <<func, nposted, func_outcome, exception, stop_emits, events,
                   timer_active, accept_scheduled, start_time, success,
                   exec_raised, finished, tickerView, progressView>>

\* ----------------------------------------------------------- worker thread
\* a wrapper that calls func(self) without emitting start
WorkerSkipsStart ==
    /\ wpc = "emit_start"
    /\ wpc' = "func"
    /\ UNCHANGED <<func, nposted, func_outcome, exception, stop_emits, events,
                   lifecycle, tickerView, progressView>>

\* self.func, line 59: start_signal.emit()
WorkerEmitStart ==
    /\ wpc = "emit_start"
    /\ events' = Append(events, <<"start">>)
    /\ wpc' = "func"
    /\ UNCHANGED <<func, nposted, func_outcome, exception, stop_emits,
                   lifecycle, tickerView, progressView>>

\* updateProgress that also writes a label from the calling thread
FuncUpdateProgressTouchesLabel ==
    /\ wpc = "func"
    /\ nposted < MaxPosts
    /\ \E p \in PayloadsOf(func) : events' = Append(events, <<"progress", p>>)
    /\ nposted' = nposted + 1
    /\ current_op_label' = <<"Working...">>
    /\ UNCHANGED <<func, wpc, func_outcome, exception, stop_emits, lifecycle,
                   tickerView, bar, current_size_processed, total_size,
                   completed_operations, total_operations, files_label,
                   size_label, main_progress_label, last_operations,
                   recent_ops_list>>

\* func(self) calls updateProgress, lines 259-273: the payload is emitted on
\* progress_signal and nothing else is touched
FuncUpdateProgress ==
    /\ wpc = "func"
    /\ nposted < MaxPosts
    /\ \E p \in PayloadsOf(func) : events' = Append(events, <<"progress", p>>)
    /\ nposted' = nposted + 1
    /\ UNCHANGED <<func, wpc, func_outcome, exception, stop_emits, lifecycle,
                   tickerView, progressView>>

\* func(self) returns, line 60
FuncReturn ==
    /\ wpc = "func"
    /\ wpc' = "emit_stop"
    /\ func_outcome' = Some("return")
    /\ UNCHANGED <<func, nposted, exception, stop_emits, events, lifecycle,
                   tickerView, progressView>>

\* func(self) raises an Exception, which leaves the lambda and super().run()
FuncRaise ==
    /\ wpc = "func"
    /\ wpc' = "except"
    /\ \E e \in Exceptions : func_outcome' = Some(e)
    /\ UNCHANGED <<func, nposted, exception, stop_emits, events, lifecycle,
                   tickerView, progressView>>

\* a stop notification that overtakes the payloads still queued
WorkerEmitStopOvertakes ==
    /\ wpc = "emit_stop"
    /\ events' = << <<"stop">> >> \o events
    /\ stop_emits' = stop_emits + 1
    /\ wpc' = "done"
    /\ UNCHANGED <<func, nposted, func_outcome, exception, lifecycle,
                   tickerView, progressView>>

\* self.func, line 61: stop_signal.emit() after func returned
WorkerEmitStop ==
    /\ wpc = "emit_stop"
    /\ events' = Append(events, <<"stop">>)
    /\ stop_emits' = stop_emits + 1
    /\ wpc' = "done"
    /\ UNCHANGED <<func, nposted, func_outcome, exception, lifecycle,
                   tickerView, progressView>>

\* run() that captures the exception without emitting stop
WorkerExceptNoStop ==
    /\ wpc = "except"
    /\ exception' = func_outcome
    /\ wpc' = "done"
    /\ UNCHANGED <<func, nposted, func_outcome, stop_emits, events, lifecycle,
                   tickerView, progressView>>

\* LoadingDialogThread.run, lines 389-391: capture the exception, emit stop
WorkerExcept ==
    /\ wpc = "except"
    /\ exception' = func_outcome
    /\ events' = Append(events, <<"stop">>)
    /\ stop_emits' = stop_emits + 1
    /\ wpc' = "done"
    /\ UNCHANGED <<func, nposted, func_outcome, lifecycle, tickerView,
                   progressView>>

\* --------------------------------------------------------------- UI thread
\* The modal event loop delivers the queued signals one at a time, in order.
Delivered(sig) == epc = "loop" /\ events # <<>> /\ Head(events)[1] = sig

\* on_start, lines 172-175
OnStart ==
    /\ Delivered("start")
    /\ events' = Tail(events)
    /\ starttime' = Some(ticks)
    /\ start_time' = Some(ticks)
    /\ current_op_label' = <<"Starting operation...">>
    /\ main_progress_label' = <<"Initializing...">>
    /\ UNCHANGED <<worker, epc, timer_active, accept_scheduled, success,
                   exec_raised, finished, tickerView, bar, current_size_processed,
                   total_size, completed_operations, total_operations,
                   files_label, size_label, last_operations, recent_ops_list>>

\* a payload without secondary text resets the counts
CountOfResets(p) ==
    IF p.text2 = None
    THEN [completed |-> Some(0), total |-> Some(0), label |-> None]
    ELSE ParseFileCount(Val(p.text2))

\* lines 320-334 for a payload
CountOf(p) == IF p.text2 = None THEN NoCount ELSE ParseFileCount(Val(p.text2))

\* both texts tested against the log as it was before the payload
LogAfterStale(log, p) ==
    IF p.text3 # None /\ Len(Val(p.text3)) > MinTextLen /\ ~InLog(Val(p.text3), log)
    THEN DequeAppend(LogAfterText2(log, p.text2), Val(p.text3))
    ELSE LogAfterText2(log, p.text2)

\* lines 339-347 for a payload
LogAfter(log, p) == LogAfterText3(LogAfterText2(log, p.text2), p.text3)

\* setProgress, lines 283-350, applied to the dialog
SetProgress(p) ==
    \E count \in {CountOf(p)}, log \in {LogAfter(last_operations, p)} :
       /\ total_size' = IF HasPrimary(p) /\ total_size = 0 /\ Val(EffMax1(p)) > 0
                        THEN Val(EffMax1(p)) ELSE total_size
       /\ bar' = IF UpdatesBar(p)
                 THEN SetValue(bar, Percent(Val(EffValue1(p)), Val(EffMax1(p))))
                 ELSE bar
       /\ current_size_processed' = SizeAfter(current_size_processed, p)
       /\ size_label' = IF UpdatesBar(p)
                        THEN SizeText(Val(EffValue1(p)), Val(EffMax1(p)))
                        ELSE size_label
       /\ main_progress_label' =
              IF EffText1(p) # None THEN Val(EffText1(p)) ELSE main_progress_label
       /\ completed_operations' =
              IF count.completed # None THEN Val(count.completed)
              ELSE completed_operations
       /\ total_operations' =
              IF count.total # None THEN Val(count.total) ELSE total_operations
       /\ files_label' = IF count.label # None THEN Val(count.label) ELSE files_label
       /\ current_op_label' =
              IF p.text2 # None THEN Val(p.text2) ELSE current_op_label
       /\ last_operations' = log
       \* add_operation_to_list, lines 217-219: the widget is rebuilt from the deque
       /\ recent_ops_list' = IF log # last_operations THEN log ELSE recent_ops_list

\* on_progress, lines 203-207
OnProgress ==
    /\ Delivered("progress")
    /\ events' = Tail(events)
    /\ \E p \in {Head(events)[2]} : SetProgress(p)
    /\ UNCHANGED <<worker, lifecycle, tickerView>>

\* on_finish that resets the bar
BarOnFinishReset(cur, total) == IF total > 0 THEN BarMin ELSE cur

\* on_finish that fills the bar without looking at total_operations
BarOnFinishAlways(cur, total) == SetValue(cur, BarMax)

\* lines 185-186
BarOnFinish(cur, total) == IF total > 0 THEN SetValue(cur, BarMax) ELSE cur

\* a timer that keeps running
TimerStopNoop(active) == active

\* line 182: self.timer.stop()
TimerStop(active) == FALSE

\* on_finish that never schedules accept()
OnFinishNoAccept ==
    /\ Delivered("stop")
    /\ events' = Tail(events)
    /\ timer_active' = FALSE
    /\ finished' = TRUE
    /\ bar' = BarOnFinish(bar, total_operations)
    /\ UNCHANGED <<worker, epc, starttime, start_time, success, exec_raised,
                   accept_scheduled, tickerView, current_size_processed,
                   total_size, completed_operations, total_operations,
                   files_label, size_label, main_progress_label,
                   current_op_label, last_operations, recent_ops_list>>

\* on_finish, lines 182-201.  With start_time still None line 190 raises and
\* the slot ends there.
OnFinish ==
    /\ Delivered("stop")
    /\ events' = Tail(events)
    /\ timer_active' = TimerStop(timer_active)
    /\ finished' = TRUE
    /\ bar' = BarOnFinish(bar, total_operations)
    /\ files_label' =
           IF total_operations > 0
           THEN <<"Files: ">> \o IntToStr(completed_operations) \o <<" / ">>
                    \o IntToStr(total_operations)
           ELSE files_label
    /\ IF start_time = None
       THEN UNCHANGED <<main_progress_label, current_op_label,
                        recent_ops_list, accept_scheduled>>
       ELSE /\ main_progress_label' = <<"Operation completed in ">>
                    \o IntToStr(ticks - Val(start_time))
            /\ current_op_label' = <<"All operations completed successfully.">>
            /\ recent_ops_list' = Append(recent_ops_list,
                   <<"Completed ">> \o IntToStr(completed_operations)
                       \o <<" operations in ">> \o IntToStr(ticks - Val(start_time)))
            /\ accept_scheduled' = TRUE
    /\ UNCHANGED <<worker, epc, starttime, start_time, success, exec_raised,
                   tickerView, current_size_processed, total_size,
                   completed_operations,
                   total_operations, size_label, last_operations>>

\* The 500 ms QTimer fires: update_elapsed_time, lines 151-166.  The clock
\* is counted in timeouts of this timer.
UpdateElapsedTime ==
    /\ epc = "loop"
    /\ timer_active
    /\ ticks < MaxTicks
    /\ ticks' = ticks + 1
    /\ IF starttime = None
       THEN UNCHANGED <<time_label, speed_label, window_title>>
       ELSE LET elapsed == ticks' - Val(starttime)
            IN /\ speed_label' =
                      IF elapsed > 0 /\ current_size_processed > 0
                      THEN <<"Speed: ">> \o IntToStr(current_size_processed)
                               \o <<" / ">> \o IntToStr(elapsed)
                      ELSE speed_label
               /\ time_label' = <<"Time: ">> \o IntToStr(elapsed)
               /\ window_title' = <<"elapsed: ">> \o IntToStr(elapsed)
    /\ UNCHANGED <<worker, events, lifecycle, progressView>>

\* a dialog that can be closed while nothing has scheduled accept()
AcceptUnscheduled ==
    /\ epc = "loop"
    /\ accept_scheduled' = FALSE
    /\ epc' = "closed"
    /\ UNCHANGED <<worker, events, timer_active, starttime, start_time,
                   success, exec_raised, finished, tickerView, progressView>>

\* QTimer.singleShot(500, self.accept) fires: the dialog closes and the
\* blocking super().exec() of line 364 returns
Accept ==
    /\ epc = "loop"
    /\ accept_scheduled
    /\ accept_scheduled' = FALSE
    /\ epc' = "closed"
    /\ UNCHANGED <<worker, events, timer_active, starttime, start_time,
                   success, exec_raised, finished, tickerView, progressView>>

\* exec() that returns without looking at the captured exception
ExecEndSwallows ==
    /\ epc = "closed"
    /\ epc' = "returned"
    /\ exec_raised' = None
    /\ UNCHANGED <<worker, events, timer_active, accept_scheduled, starttime,
                   start_time, success, finished, tickerView, progressView>>

\* exec(), lines 367-368: re-raise the captured exception, else return
ExecEnd ==
    /\ epc = "closed"
    /\ epc' = IF exception # None THEN "raised" ELSE "returned"
    /\ exec_raised' = exception
    /\ UNCHANGED <<worker, events, timer_active, accept_scheduled, starttime,
                   start_time, success, finished, tickerView, progressView>>

Next ==
    \/ Exec
    \/ WorkerEmitStart
    \/ FuncUpdateProgress
    \/ FuncReturn
    \/ FuncRaise
    \/ WorkerEmitStop
    \/ WorkerExcept
    \/ OnStart
    \/ OnProgress
    \/ OnFinish
    \/ UpdateElapsedTime
    \/ Accept
    \/ ExecEnd

Spec == Init /\ [][Next]_vars

\* The same program run with one kind of caller-supplied function.
InitLife == Init /\ func = "life"
SpecLife == InitLife /\ [][Next]_vars
InitBar == Init /\ func = "bar"
SpecBar == InitBar /\ [][Next]_vars
InitGuard == Init /\ func = "guard"
SpecGuard == InitGuard /\ [][Next]_vars
InitCount == Init /\ func = "count"
SpecCount == InitCount /\ [][Next]_vars
InitMalformed == Init /\ func = "malformed"
SpecMalformed == InitMalformed /\ [][Next]_vars
InitLog == Init /\ func = "log"
SpecLog == InitLog /\ [][Next]_vars
InitFrame == Init /\ func = "frame"
SpecFrame == InitFrame /\ [][Next]_vars

\* One step of the worker thread outside func(self).
WorkerStep == WorkerEmitStart \/ WorkerEmitStop \/ WorkerExcept

\* One step of the modal event loop: a queued signal is delivered or the
\* single-shot timer fires.
EventLoopStep == OnStart \/ OnProgress \/ OnFinish \/ Accept

\* The worker thread runs whenever it can, the event loop keeps delivering
\* and exec() goes on once the loop has ended.  Nothing makes func(self) or
\* the ticker take a step.
FairLife ==
    /\ SpecLife
    /\ WF_vars(WorkerStep)
    /\ WF_vars(EventLoopStep)
    /\ WF_vars(ExecEnd)

\* ------------------------------------------------------------------ claims
\* C1: when func raises an exception the dialog still closes and exec()
\* raises that same exception; when func returns, exec() returns without
\* raising.
C1_SameExceptionReraised ==
    /\ [](epc = "raised" =>
            /\ func_outcome # None
            /\ Val(func_outcome) \in Exceptions
            /\ exec_raised = func_outcome)
    /\ [](epc = "returned" => func_outcome = Some("return") /\ exec_raised = None)
    /\ \A e \in Exceptions :
          (func_outcome = Some(e)) ~> (epc = "raised" /\ exec_raised = Some(e))
    /\ (func_outcome = Some("return")) ~> (epc = "returned")

C1_Witness ==
    /\ func_outcome = Some("OSError")
    /\ epc = "raised"
    /\ exec_raised = Some("OSError")

\* C2: the worker emits stop exactly once, after func returned or after its
\* exception was captured: no stop before func ends, one once the thread is
\* done, and never more than one stop queued.
C2_StopEmittedOnce ==
    /\ stop_emits = (IF wpc = "done" THEN 1 ELSE 0)
    /\ wpc = "done" => func_outcome # None
    /\ Cardinality({i \in 1..Len(events) : events[i] = <<"stop">>}) <= stop_emits
    /\ (wpc = "done" /\ func_outcome # Some("return")) => exception = func_outcome

C2_Witness ==
    /\ wpc = "done"
    /\ func_outcome = Some("ValueError")
    /\ exception = Some("ValueError")
    /\ stop_emits = 1

\* C3: accept() is pending, the dialog is closed or exec() has ended only
\* after on_finish has handled the stop notification.
C3_CloseOnlyAfterStop ==
    (accept_scheduled \/ epc \in {"closed", "returned", "raised"}) =>
        (finished /\ stop_emits = 1 /\ events = <<>>)

C3_Witness == epc = "closed" /\ finished /\ ~accept_scheduled

\* C4: with the worker thread and the event queue scheduled fairly, once
\* func has ended (returned or raised) the stop notification is handled, the
\* dialog closes and exec() returns or raises.
C4_TerminatesAfterFunc ==
    /\ (func_outcome # None) ~> finished
    /\ (func_outcome # None) ~> (epc \in {"returned", "raised"})
    /\ [](epc \in {"returned", "raised"} => finished /\ ~accept_scheduled)

C4_Witness ==
    /\ func_outcome = Some("return")
    /\ finished
    /\ epc = "returned"
    /\ nposted = MaxPosts

\* The payload the event loop is about to hand to on_progress.
Applying == Head(events)[2]

\* This step is the event loop delivering the queued signal sig to its slot.
Handles(sig) == Delivered(sig) /\ events' = Tail(events)

\* The last five entries of a sequence.
LastFive(q) == IF Len(q) > 5 THEN SubSeq(q, Len(q) - 4, Len(q)) ELSE q

\* The texts a payload may append to the log, in the order of appending.
Appended(p) ==
    {<<>>}
    \cup (IF p.text2 # None THEN {<<Val(p.text2)>>} ELSE {})
    \cup (IF p.text3 # None THEN {<<Val(p.text3)>>} ELSE {})
    \cup (IF p.text2 # None /\ p.text3 # None
          THEN {<<Val(p.text2), Val(p.text3)>>} ELSE {})

\* C5: the recent-operations log never holds more than 5 entries; applying a
\* payload leaves the last five of the old entries followed by the texts it
\* appends, so the oldest entries are the ones dropped, the entries kept stay
\* in order and the new texts come last; a secondary text longer than 5 that
\* is not in the log is among the texts appended.
C5_LogKeepsLastFive ==
    [][LET old == last_operations
           new == last_operations'
       IN /\ Len(new) <= 5
          /\ new # old => Handles("progress")
          /\ Handles("progress") =>
               \E added \in Appended(Applying) :
                  /\ new = LastFive(old \o added)
                  /\ (/\ Applying.text2 # None
                      /\ Len(Val(Applying.text2)) > 5
                      /\ ~InLog(Val(Applying.text2), old))
                        => (added # <<>> /\ added[1] = Val(Applying.text2))]_vars

C5_Witness == last_operations = <<TxtOpD, TxtOpB, TxtOpE, TxtOpC, TxtOpF>>

\* The primary triple of a payload is valid: both present, max > 0, value >= 0.
ValidPrimary(p) == UpdatesBar(p) /\ Val(EffValue1(p)) >= 0

\* C6 as stated: after a payload with a valid primary triple the main bar
\* shows clamp(round(value/max*100), 0, 100).
C6_RoundedPercent ==
    [][(Handles("progress") /\ ValidPrimary(Applying)) =>
          LET v == Val(EffValue1(Applying))
              m == Val(EffMax1(Applying))
              rounded == (200 * v + m) \div (2 * m)
          IN bar' = (IF rounded > 100 THEN 100 ELSE rounded)]_vars

\* C6 amended: after a payload with a valid primary triple the main bar
\* shows min(floor(100*value/max), 100), truncated and not rounded, or one
\* less where the double product falls just below an exact integer; 50/200
\* shows 25.
C6_TruncatedPercent ==
    [][(Handles("progress") /\ ValidPrimary(Applying)) =>
          LET v == Val(EffValue1(Applying))
              m == Val(EffMax1(Applying))
              q == (100 * v) \div m
          IN /\ bar' \in 0..100
             /\ \/ bar' = (IF q > 100 THEN 100 ELSE q)
                \/ /\ q * m = 100 * v
                   /\ <<v, m>> \in FloatShort
                   /\ bar' = (IF q - 1 > 100 THEN 100 ELSE q - 1)
             /\ (v = 50 /\ m = 200) => bar' = 25
             /\ (v = 2 /\ m = 3) => bar' = 66
             /\ current_size_processed' = v]_vars

C6_Witness ==
    /\ bar = 66
    /\ current_size_processed = 2
    /\ total_size = 200
    /\ main_progress_label = TxtCopying

\* C7: a payload whose primary max is 0 or absent, or whose primary value is
\* absent (the legacy keys counting as the primary triple), is applied
\* without error and changes neither the main bar nor the processed size.
C7_GuardedPrimary ==
    [][(/\ Handles("progress")
        /\ \/ EffMax1(Applying) = None
           \/ EffValue1(Applying) = None
           \/ Val(EffMax1(Applying)) = 0) =>
          /\ bar' = bar
          /\ current_size_processed' = current_size_processed
          /\ size_label' = size_label
          /\ total_size' = total_size
          /\ main_progress_label' =
                IF EffText1(Applying) = None THEN main_progress_label
                ELSE Val(EffText1(Applying))]_vars

C7_Witness ==
    /\ bar = 25
    /\ current_size_processed = 1
    /\ main_progress_label = TxtCopying
    /\ ~finished

\* C8 as stated: no step lowers the processed size or the main bar.
C8_Monotonic ==
    [][/\ bar' >= bar
       /\ current_size_processed' >= current_size_processed]_vars

\* C8 amended: the completion step never lowers the processed size or the
\* main bar, and they are lowered only by applying a payload whose own
\* primary value, respectively percentage, is lower than the one shown.
C8_LoweredOnlyByPayload ==
    [][/\ Handles("stop") =>
            /\ bar' >= bar
            /\ current_size_processed' = current_size_processed
       /\ current_size_processed' < current_size_processed =>
            /\ Handles("progress")
            /\ UpdatesBar(Applying)
            /\ current_size_processed' = Val(EffValue1(Applying))
       /\ bar' < bar =>
            /\ Handles("progress")
            /\ UpdatesBar(Applying)
            /\ bar' * Val(EffMax1(Applying)) <= 100 * Val(EffValue1(Applying))
            /\ 100 * Val(EffValue1(Applying)) <= (bar' + 1) * Val(EffMax1(Applying))
            /\ 100 * Val(EffValue1(Applying)) < bar * Val(EffMax1(Applying))]_vars

C8_Witness ==
    /\ finished
    /\ bar = 100
    /\ current_size_processed = 1
    /\ total_size = 4
    /\ total_operations = 9
    /\ nposted = 2

\* C9 as stated: handling the stop notification leaves the main bar at 100.
C9_AlwaysFull == [][Handles("stop") => bar' = 100]_vars

\* C9 amended: handling the stop notification sets the main bar to 100 when
\* total_operations is positive, and leaves it as it is otherwise.
C9_FullWhenCounted ==
    [][Handles("stop") =>
          /\ total_operations > 0 => bar' = 100
          /\ total_operations <= 0 => bar' = bar
          /\ finished']_vars

C9_Witness ==
    /\ finished
    /\ total_operations = 0
    /\ bar = 75
    /\ accept_scheduled

\* text has the form "name (X/Y)": it ends with ")" and the " (" at index i
\* opens a part X/Y with one "/" and two integers.
CountForm(text, i) ==
    /\ Len(text) >= i + 5
    /\ SubSeq(text, i, i + 1) = <<" ", "(">>
    /\ text[Len(text)] = ")"
    /\ \E j \in (i + 2)..(Len(text) - 1) :
          /\ text[j] = "/"
          /\ ParseInt(SubSeq(text, i + 2, j - 1)) # None
          /\ ParseInt(SubSeq(text, j + 1, Len(text) - 1)) # None

\* C10: a secondary text "name (X/Y)" sets completed_operations to X,
\* total_operations to Y and the files label to "Files: X/Y"; any secondary
\* text, malformed or not, is applied without error and shown as the current
\* operation.
C10_CountParsed ==
    [][(Handles("progress") /\ Applying.text2 # None) =>
          LET text == Val(Applying.text2)
          IN /\ current_op_label' = text
             /\ \A i \in 1..Len(text) : CountForm(text, i) =>
                  \A j \in (i + 2)..(Len(text) - 1) : text[j] = "/" =>
                     /\ Some(completed_operations')
                           = ParseInt(SubSeq(text, i + 2, j - 1))
                     /\ Some(total_operations')
                           = ParseInt(SubSeq(text, j + 1, Len(text) - 1))
                     /\ files_label' = <<"Files: ">> \o SubSeq(text, i + 2, j - 1)
                           \o <<"/">> \o SubSeq(text, j + 1, Len(text) - 1)]_vars

\* This step is taken by the worker thread, inside run().
WorkerThreadStep == wpc # "unstarted" /\ (wpc' # wpc \/ nposted' # nposted)

\* C11: the display state (bar, counts, sizes, labels, log, list) changes only
\* in a handler run by the event loop of the UI thread (on_start, on_progress,
\* on_finish, the ticker); a step of the worker thread changes no dialog
\* state and at most appends one notification to the queue, and a call of
\* updateProgress appends exactly its payload.
C11_UiThreadOnly ==
    [][/\ (progressView' # progressView
            \/ <<time_label, speed_label, window_title>>'
                  # <<time_label, speed_label, window_title>>) =>
              /\ epc = "loop"
              /\ ~WorkerThreadStep
              /\ \/ Handles("start")
                 \/ Handles("progress")
                 \/ Handles("stop")
                 \/ ticks' = ticks + 1
       /\ WorkerThreadStep =>
              /\ UNCHANGED <<lifecycle, tickerView, progressView>>
              /\ \/ events' = events
                 \/ events' = Append(events, <<"start">>)
                 \/ events' = Append(events, <<"stop">>)
                 \/ \E p \in PayloadsOf(func) :
                       events' = Append(events, <<"progress", p>>)
       /\ nposted' # nposted =>
              /\ wpc' = wpc
              /\ Len(events') = Len(events) + 1
              /\ events'[Len(events')][1] = "progress"]_vars

C11_Witness ==
    /\ wpc = "func"
    /\ nposted = 2
    /\ Len(events) = 3
    /\ bar = 0
    /\ completed_operations = 0
    /\ current_op_label = <<"Waiting to start...">>
    /\ last_operations = <<>>

\* C12: once the worker has finished, the outcome tells how it ended: after
\* an exception the captured error is set and the success flag is false,
\* after a normal return no error is captured and the success flag is true.
C12_OutcomeConsistent ==
    wpc = "done" =>
        IF func_outcome = Some("return")
        THEN exception = None /\ success = TRUE
        ELSE exception = func_outcome /\ success = FALSE

\* C13: handling the stop notification stops the ticker, and once it has
\* been handled no step is a ticker update: the clock of ticker timeouts,
\* the time label, the speed label and the window title stay as they are,
\* also while the dialog waits to close.
C13_TickerStopped ==
    [][/\ Handles("stop") => (finished' /\ ~timer_active')
       /\ finished' => ~timer_active'
       /\ finished =>
             UNCHANGED <<ticks, time_label, speed_label, window_title>>]_vars

C13_Witness ==
    /\ finished
    /\ accept_scheduled
    /\ epc = "loop"
    /\ ticks < MaxTicks
    /\ starttime # None
    /\ ~timer_active

\* The payload carries a secondary text and nothing else.
OnlySecondary(p) ==
    /\ p.text2 # None
    /\ \A k \in {"text1", "value1", "max1", "text3", "text", "value", "max"} :
          p[k] = None

\* The payload carries no field at all.
AllAbsent(p) == \A k \in DOMAIN p : p[k] = None

\* C14: applying a payload without secondary and tertiary text changes
\* neither the operation counts, the files label, the current operation nor
\* the recent-operations log and list; a payload with only a secondary text
\* changes neither the bar, the processed size, the total size, the size
\* label nor the main label; a payload with every field absent changes no
\* dialog state at all.
C14_AbsentFieldsKeep ==
    [][Handles("progress") =>
          /\ (Applying.text2 = None /\ Applying.text3 = None) =>
                UNCHANGED <<completed_operations, total_operations, files_label,
                            current_op_label, last_operations, recent_ops_list>>
          /\ OnlySecondary(Applying) =>
                UNCHANGED <<bar, current_size_processed, total_size, size_label,
                            main_progress_label>>
          /\ AllAbsent(Applying) =>
                UNCHANGED <<progressView, tickerView, lifecycle>>]_vars

C14_Witness ==
    /\ events = <<>>
    /\ nposted = 3
    /\ bar = 75
    /\ current_size_processed = 3
    /\ completed_operations = 3
    /\ total_operations = 10
    /\ last_operations = <<TxtFoo310>>
    /\ main_progress_label = TxtCopying
    /\ current_op_label = TxtFoo310
    /\ ~finished

\* C15: in every reachable state the entries of the recent-operations log
\* are pairwise distinct and each is longer than 5 characters, also after a
\* payload whose secondary and tertiary texts are equal.
C15_LogDistinctLong ==
    /\ \A i \in 1..Len(last_operations) : Len(last_operations[i]) > 5
    /\ \A i, j \in 1..Len(last_operations) :
          i # j => last_operations[i] # last_operations[j]

C15_Witness ==
    /\ last_operations = <<TxtOpA, TxtOpD, TxtOpB>>
    /\ nposted = 2
    /\ events = <<>>
    /\ current_op_label = TxtOpB

\* C16: the start notification is queued before everything else the worker
\* emits, so on_start has set the start timestamp when a payload is applied
\* and when on_finish runs, whether func returned or raised; on_finish then
\* runs to its end and schedules the close.
C16_StartHandledFirst ==
    /\ [](\A i \in 1..Len(events) : events[i][1] = "start" => i = 1)
    /\ [](finished => (start_time # None /\ starttime = start_time))
    /\ [][/\ Handles("progress") => start_time # None
          /\ Handles("stop") => (start_time # None /\ accept_scheduled')
          /\ Handles("start") => (start_time = None /\ start_time' # None)]_vars

C16_Witness ==
    /\ finished
    /\ func_outcome = Some("OSError")
    /\ start_time # None
    /\ accept_scheduled
    /\ nposted = 1

\* The payloads posted and not yet applied.
QueuedPayloads ==
    Cardinality({i \in 1..Len(events) : events[i][1] = "progress"})

\* C17: the queue is first-in first-out: the worker appends at the tail, the
\* UI thread takes the head, one notification per step, and applies the
\* payload it took; stop is queued behind every payload, so when on_finish
\* has run every posted payload has been applied and none is applied
\* afterwards; on_finish leaves the counts of the last payload that carried
\* them and shows them in the files label.
C17_AppliedInOrder ==
    /\ [](\A i \in 1..Len(events) : events[i][1] = "stop" => i = Len(events))
    /\ [](finished => (events = <<>> /\ QueuedPayloads = 0 /\ wpc = "done"))
    /\ [][/\ events' # events =>
                \/ events # <<>> /\ events' = Tail(events) /\ epc = "loop"
                \/ /\ Len(events') = Len(events) + 1
                   /\ SubSeq(events', 1, Len(events)) = events
          /\ (progressView' # progressView /\ ~Handles("start")
                 /\ ~Handles("stop")) => Handles("progress")
          /\ Handles("progress") =>
                /\ ~finished
                /\ QueuedPayloads' = QueuedPayloads - 1
                /\ Applying.text2 # None => current_op_label' = Val(Applying.text2)
                /\ CountOf(Applying).total # None =>
                      /\ completed_operations' = Val(CountOf(Applying).completed)
                      /\ total_operations' = Val(CountOf(Applying).total)
          /\ finished => UNCHANGED progressView
          /\ Handles("stop") =>
                /\ UNCHANGED <<completed_operations, total_operations>>
                /\ total_operations > 0 =>
                      files_label' = <<"Files: ">> \o IntToStr(completed_operations)
                          \o <<" / ">> \o IntToStr(total_operations)]_vars

C17_Witness ==
    /\ finished
    /\ nposted = 3
    /\ completed_operations = 7
    /\ total_operations = 9
    /\ files_label = <<"Files: ", "7", " / ", "9">>
    /\ current_size_processed = 1
    /\ bar = 100

\* C18: applying a secondary text that holds no well-formed count "(X/Y)"
\* leaves both the completed-operations count and the total-operations
\* count as they were.
C18_CountsKeptOnParseFailure ==
    [][(/\ Handles("progress")
        /\ Applying.text2 # None
        /\ \A i \in 1..Len(Val(Applying.text2)) :
              ~CountForm(Val(Applying.text2), i)) =>
          UNCHANGED <<completed_operations, total_operations>>]_vars

\* C19: in every reachable state the list widget shows at most 5 items and
\* exactly the entries of the recent-operations log, in order.
C19_ListShowsLog ==
    /\ Len(recent_ops_list) <= 5
    /\ recent_ops_list = last_operations

====
